---- MODULE Spec2Model ----
(***************************************************************************)
(* GarchCondMC (pyfeng/garch.py): the Milstein simulation of the log       *)
(* variance (vol_paths) and the conditional forward / volatility           *)
(* (cond_spot_sigma).                                                      *)
(*                                                                         *)
(* Numbers.  The program computes in IEEE-754 binary64.  The model keeps   *)
(* the structure of that arithmetic at reduced width: a number is an       *)
(* integer count of 1/One units (round to nearest after every operation),  *)
(* finite up to MaxFin units, plus the three special values +inf, -inf and *)
(* NaN with their IEEE rules (overflow to inf, underflow of exp to 0,      *)
(* 0*inf = inf-inf = 0/0 = NaN, x/0 = +-inf).                              *)
(***************************************************************************)
EXTENDS Integers, Sequences, FiniteSets

\* ------------------------------------------------------------ numbers
One == 64
MaxFin == 32767
PInf == MaxFin + 1
NInf == 0 - (MaxFin + 1)
NaN == MaxFin + 2

Two == 2 * One
Three == 3 * One
Four == 4 * One
Half == One \div 2

IsNaN(a) == a = NaN
IsFinite(a) == a >= 0 - MaxFin /\ a <= MaxFin
Abs(n) == IF n < 0 THEN 0 - n ELSE n
Sgn(n) == IF n < 0 THEN 0 - 1 ELSE IF n > 0 THEN 1 ELSE 0

\* overflow of a finite result goes to the infinity of its sign
Norm(n) == IF n > MaxFin THEN PInf ELSE IF n < 0 - MaxFin THEN NInf ELSE n

\* n / d for integers, d > 0, rounded to nearest (ties away from zero)
RoundDiv(n, d) == Sgn(n) * ((Abs(n) + d \div 2) \div d)

Neg(a) == IF IsNaN(a) THEN NaN ELSE 0 - a

Add(a, b) ==
    IF IsNaN(a) \/ IsNaN(b) THEN NaN
    ELSE IF (a = PInf /\ b = NInf) \/ (a = NInf /\ b = PInf) THEN NaN
    ELSE IF a = PInf \/ b = PInf THEN PInf
    ELSE IF a = NInf \/ b = NInf THEN NInf
    ELSE Norm(a + b)

Sub(a, b) == Add(a, Neg(b))

Mul(a, b) ==
    IF IsNaN(a) \/ IsNaN(b) THEN NaN
    ELSE IF IsFinite(a) /\ IsFinite(b) THEN Norm(RoundDiv(a * b, One))
    ELSE IF a = 0 \/ b = 0 THEN NaN
    ELSE IF Sgn(a) = Sgn(b) THEN PInf ELSE NInf

\* numpy's true division: a zero divisor gives +-inf or NaN, never an error
Div(a, b) ==
    IF IsNaN(a) \/ IsNaN(b) THEN NaN
    ELSE IF ~IsFinite(a) /\ ~IsFinite(b) THEN NaN
    ELSE IF ~IsFinite(b) THEN 0
    ELSE IF b = 0 THEN (IF a = 0 THEN NaN ELSE IF a > 0 THEN PInf ELSE NInf)
    ELSE IF ~IsFinite(a) THEN (IF Sgn(a) = Sgn(b) THEN PInf ELSE NInf)
    ELSE Norm(Sgn(b) * RoundDiv(a * One, Abs(b)))

Lt(a, b) == ~IsNaN(a) /\ ~IsNaN(b) /\ a < b
Le(a, b) == ~IsNaN(a) /\ ~IsNaN(b) /\ a <= b

\* ---- exp: range reduction x = k*ln2 + r, Taylor series for e^r
ExpP == 16384
Ln2P == 11357
ExpTerms == 10

RECURSIVE Pow2(_)
Pow2(n) == IF n = 0 THEN 1 ELSE 2 * Pow2(n - 1)

RECURSIVE ExpSeries(_, _, _)
ExpSeries(r, j, term) ==
    IF j > ExpTerms THEN 0
    ELSE term + ExpSeries(r, j + 1, (term * r) \div (ExpP * (j + 1)))

\* e^(x/One) in units of 1/ExpP, for a finite x whose result fits
ExpRaw(x) ==
    LET xp == x * (ExpP \div One)
        k == xp \div Ln2P
        m == ExpSeries(xp % Ln2P, 0, ExpP)
    IN  IF k >= 0 THEN m * Pow2(k) ELSE m \div Pow2(0 - k)

\* the least x (in units) whose exponential does not round to zero
MinLogPos == 0 - 310
\* the greatest x (in units) whose exponential is finite
MaxLogFin == 399

Exp(a) ==
    IF IsNaN(a) THEN NaN
    ELSE IF a = PInf THEN PInf
    ELSE IF a = NInf THEN 0
    ELSE IF a > MaxLogFin THEN PInf
    ELSE IF a < MinLogPos THEN 0
    ELSE Norm(RoundDiv(ExpRaw(a), ExpP \div One))

\* ---- log: the nearest x with e^x = v, found by bisection on ExpRaw
RECURSIVE LogSearch(_, _, _)
LogSearch(lo, hi, t) ==
    IF hi - lo <= 1
    THEN (IF ExpRaw(hi) - t < t - ExpRaw(lo) THEN hi ELSE lo)
    ELSE LET mid == (lo + hi) \div 2
         IN  IF ExpRaw(mid) <= t THEN LogSearch(mid, hi, t)
             ELSE LogSearch(lo, mid, t)

Log(a) ==
    IF IsNaN(a) \/ a < 0 THEN NaN
    ELSE IF a = 0 THEN NInf
    ELSE IF a = PInf THEN PInf
    ELSE LogSearch(MinLogPos, MaxLogFin + 1, a * (ExpP \div One))

\* ---- sqrt: integer square root of a*One, rounded to nearest
RECURSIVE SqrtSearch(_, _, _)
SqrtSearch(lo, hi, n) ==
    IF hi - lo <= 1 THEN lo
    ELSE LET mid == (lo + hi) \div 2
         IN  IF mid * mid <= n THEN SqrtSearch(mid, hi, n)
             ELSE SqrtSearch(lo, mid, n)

Sqrt(a) ==
    IF IsNaN(a) \/ a < 0 THEN NaN
    ELSE IF a = PInf THEN PInf
    ELSE LET n == a * One
             r == SqrtSearch(0, 2048, n)
         IN  IF n - r * r > r THEN r + 1 ELSE r

\* ------------------------------------------------------------ inputs
MaxNdt == 2

SigmaSet == {16, 80}
VovSet == {0, 32, 256}
MrSet == {0, 64}
ThetaSet == {16}
RhoSet == {0, 0 - 32, 64}
DtSet == {32}
TexpSet == {32, 64}
ZSet == {0 - 64, 64}
NPathSet == {1, 2}

Paths(np) == 0 .. (np - 1)

\* ------------------------------------------------------------ state
VARIABLES
    sigma, vov, rho, mr, theta, dt, n_path, pyScalars,
    pc, caller, texp, tobs, n_dt, rn_norm, w_t, i, used, var_paths, first,
    rhoc, sigma_final, int_sigma, int_var, int_sigma_inv, fwd_cond, sigma_cond

params == <<sigma, vov, rho, mr, theta, dt, n_path, pyScalars>>
sim == <<rn_norm, w_t, i, used, var_paths>>
outs == <<sigma_final, int_sigma, int_var, int_sigma_inv, fwd_cond, sigma_cond>>
vars == <<params, pc, caller, texp, tobs, n_dt, sim, first, rhoc, outs>>

\* ------------------------------------------------------------ collaborators
\* tobs(texp): n increasing times in (0, texp], the last one texp
Tobs(t, n) == [k \in 1 .. n |-> Div(Mul(k * One, t), n * One)]

\* an upper limit of n + 1.1 instead of n + 0.1
ArangeLenLong(n) == ((10 * n + 11 - 10) + 9) \div 10

\* len(np.arange(1, n + 0.1)) = ceil(n + 0.1 - 1), in tenths
ArangeLen(n) == ((10 * n + 1 - 10) + 9) \div 10

\* _bm_incr(tobs, cum=False): one row of standard normals per time of tobs
BmIncr(rows, np) == [0 .. (rows - 1) -> [Paths(np) -> ZSet]]

\* ------------------------------------------------------------ vol_paths
\* np.zeros((n_dt, int(n_path))): one row short
NewWShort(n, np, sig) ==
    [r \in 0 .. (n - 1) |-> [p \in Paths(np) |-> IF r = 0 THEN Mul(Two, Log(sig)) ELSE 0]]

\* the array of the previous call kept, its last row carried into row 0
NewWStale(n, np, sig) ==
    [r \in 0 .. n |-> [p \in Paths(np) |->
        IF r > 0 THEN 0
        ELSE IF w_t = <<>> THEN Mul(Two, Log(sig))
        ELSE w_t[n][p]]]

\* w_t = np.zeros((n_dt + 1, int(n_path))); w_t[0, :] = 2 * np.log(sigma)
NewW(n, np, sig) ==
    LET w0 == Mul(Two, Log(sig))
    IN  [r \in 0 .. n |-> [p \in Paths(np) |-> IF r = 0 THEN w0 ELSE 0]]

\* the right-hand side of the Milstein step for one path
Milstein(w, z) ==
    Add(Add(w,
            Mul(Sub(Sub(Mul(Mul(mr, theta), Exp(Neg(w))), mr),
                    Div(Mul(vov, vov), Two)),
                dt)),
        Mul(Mul(vov, Sqrt(dt)), z))

\* the step writing the row it reads
StepRowPrev(k) == k - 1

\* step i writes row i of w_t from row i - 1 of w_t and row i - 1 of rn_norm
StepRow(k) == k
PrevRow(k) == k - 1
RnRow(k) == k - 1

\* range(1, n_dt + 1)
LoopFirst == 1
LoopLast(n) == n

\* return w_t, the exponential forgotten
ExpAllNoExp(w) == w

\* np.exp(w_t)
ExpAll(w) == [r \in DOMAIN w |-> [p \in DOMAIN w[r] |-> Exp(w[r][p])]]

\* ------------------------------------------------------------ scipy simps
RECURSIVE SumWin(_, _, _, _)
SumWin(y, k, stop, n) ==
    IF k >= stop \/ k + 2 > n - 1 THEN 0
    ELSE Add(Mul(Div(One, Three), Add(Add(y[k], Mul(Four, y[k + 1])), y[k + 2])),
             SumWin(y, k + 2, stop, n))

\* simps(y, dx=1) of the samples y[0..n-1]; an even n averages the two
\* ways of adding one trapezoid to Simpson's rule
Simps(y, n) ==
    IF n % 2 = 1 THEN SumWin(y, 0, n - 2, n)
    ELSE LET v1 == Mul(Half, Add(y[n - 1], y[n - 2]))
             r1 == SumWin(y, 0, n - 3, n)
             v2 == Add(v1, Mul(Half, Add(y[1], y[0])))
             r2 == Add(r1, SumWin(y, 1, n - 2, n))
         IN  Add(Div(r2, Two), Div(v2, Two))

Column(m, p) == [r \in DOMAIN m |-> m[r][p]]
\* np.sqrt(var_paths) and 1/sigma_paths, one column
SqrtCol(col) == [r \in DOMAIN col |-> Sqrt(col[r])]
InvCol(col) == [r \in DOMAIN col |-> Div(One, col[r])]

\* simps(paths, dx=1, axis=0) * texp / n_dt
PathIntegral(col, t, n) == Div(Mul(Simps(col, n + 1), t), n * One)

\* ------------------------------------------------------------ cond_spot_sigma
Rhoc(r) == Sqrt(Sub(One, Mul(r, r)))

\* a division that never raises
ScalarDivNumpy(py, b) == FALSE

\* mr / vov on the model's scalar fields: built-in Python numbers raise
\* ZeroDivisionError on a zero divisor, numpy scalars do not
ScalarDivRaises(py, b) == py /\ b = 0

\* the argument of rho * ( ... ) in fwd_cond
FwdBracket(sf, isig, ivar, iinv) ==
    Sub(Add(Sub(Div(Mul(Two, Sub(sf, sigma)), vov),
                Div(Mul(Mul(mr, theta), iinv), vov)),
            Mul(Add(Div(mr, vov), Div(vov, Four)), isig)),
        Div(Mul(rho, ivar), Two))

\* the factor rho in front of the bracket forgotten
FwdCondNoRho(sf, isig, ivar, iinv) == Exp(FwdBracket(sf, isig, ivar, iinv))

FwdCond(sf, isig, ivar, iinv) == Exp(Mul(rho, FwdBracket(sf, isig, ivar, iinv)))

\* rhoc * int_var, the square root forgotten
SigmaCondNoSqrt(rc, ivar) == Mul(rc, ivar)

\* rho * sqrt(int_var), rho in place of rhoc
SigmaCondRho(rc, ivar) == Mul(rho, Sqrt(ivar))

SigmaCond(rc, ivar) == Mul(rc, Sqrt(ivar))

\* ------------------------------------------------------------ behaviour
None == <<>>

Init ==
    /\ sigma \in SigmaSet
    /\ vov \in VovSet
    /\ rho \in RhoSet
    /\ mr \in MrSet
    /\ theta \in ThetaSet
    /\ dt \in DtSet
    /\ n_path \in NPathSet
    /\ pyScalars \in BOOLEAN
    /\ pc = "idle"
    /\ caller = "none"
    /\ texp = 0
    /\ tobs = None
    /\ n_dt = 0
    /\ rn_norm = None
    /\ w_t = None
    /\ i = 0
    /\ used = None
    /\ var_paths = None
    /\ first = None
    /\ rhoc = 0
    /\ sigma_final = None
    /\ int_sigma = None
    /\ int_var = None
    /\ int_sigma_inv = None
    /\ fwd_cond = None
    /\ sigma_cond = None

\* cond_spot_sigma(texp), up to the call of vol_paths
CondSpotSigma ==
    /\ pc = "idle"
    /\ \E t \in TexpSet, n \in 1 .. MaxNdt :
          /\ texp' = t
          /\ tobs' = Tobs(t, n)
    /\ rhoc' = Rhoc(rho)
    /\ caller' = "cond_spot_sigma"
    /\ pc' = "vol_paths"
    /\ UNCHANGED <<params, n_dt, sim, first, outs>>

\* vol_paths(tobs), up to the loop
VolPathsBegin ==
    /\ pc = "vol_paths"
    /\ n_dt' = Len(tobs)
    /\ w_t' = NewW(Len(tobs), n_path, sigma)
    /\ rn_norm' \in BmIncr(ArangeLen(Len(tobs)), n_path)
    /\ i' = LoopFirst
    /\ used' = <<>>
    /\ var_paths' = None
    /\ pc' = "loop"
    /\ UNCHANGED <<params, caller, texp, tobs, first, rhoc, outs>>

\* one pass of the loop body
Step ==
    /\ pc = "loop"
    /\ i <= LoopLast(n_dt)
    /\ w_t' = [w_t EXCEPT ![StepRow(i)] =
                 [p \in Paths(n_path) |-> Milstein(w_t[PrevRow(i)][p], rn_norm[RnRow(i)][p])]]
    /\ used' = Append(used, [row |-> StepRow(i), from |-> PrevRow(i), rn |-> RnRow(i)])
    /\ i' = i + 1
    /\ UNCHANGED <<params, pc, caller, texp, tobs, n_dt, rn_norm, var_paths, first, rhoc, outs>>

\* return np.exp(w_t)
VolPathsReturn ==
    /\ pc = "loop"
    /\ i > LoopLast(n_dt)
    /\ var_paths' = ExpAll(w_t)
    /\ pc' = IF caller = "cond_spot_sigma" THEN "integrate" ELSE "returned"
    /\ UNCHANGED <<params, caller, texp, tobs, n_dt, rn_norm, w_t, i, used, first, rhoc, outs>>

\* the rest of cond_spot_sigma
CondFinish ==
    /\ pc = "integrate"
    /\ LET sp == [p \in Paths(n_path) |-> SqrtCol(Column(var_paths, p))]
           sf == [p \in Paths(n_path) |-> sp[p][n_dt]]
           isig == [p \in Paths(n_path) |-> PathIntegral(sp[p], texp, n_dt)]
           ivar == [p \in Paths(n_path) |-> PathIntegral(Column(var_paths, p), texp, n_dt)]
           iinv == [p \in Paths(n_path) |-> PathIntegral(InvCol(sp[p]), texp, n_dt)]
       IN  /\ sigma_final' = sf
           /\ int_sigma' = isig
           /\ int_var' = ivar
           /\ int_sigma_inv' = iinv
           /\ IF ScalarDivRaises(pyScalars, vov)
              THEN /\ pc' = "raised"
                   /\ UNCHANGED <<fwd_cond, sigma_cond>>
              ELSE /\ pc' = "done"
                   /\ fwd_cond' = [p \in Paths(n_path) |->
                                     FwdCond(sf[p], isig[p], ivar[p], iinv[p])]
                   /\ sigma_cond' = [p \in Paths(n_path) |-> SigmaCond(rhoc, ivar[p])]
    /\ UNCHANGED <<params, caller, texp, tobs, n_dt, sim, first, rhoc>>

\* a second, direct call vol_paths(tobs) for which the increment generator
\* was seeded as for the first: it supplies the same rows again
VolPathsAgain ==
    /\ pc \in {"done", "raised"}
    /\ first = None
    /\ first' = var_paths
    /\ caller' = "direct"
    /\ n_dt' = Len(tobs)
    /\ rn_norm' = [r \in 0 .. (ArangeLen(Len(tobs)) - 1) |-> rn_norm[r]]
    /\ w_t' = NewW(Len(tobs), n_path, sigma)
    /\ i' = LoopFirst
    /\ used' = <<>>
    /\ var_paths' = None
    /\ pc' = "loop"
    /\ UNCHANGED <<params, texp, tobs, rhoc, outs>>

Next ==
    \/ CondSpotSigma
    \/ VolPathsBegin
    \/ Step
    \/ VolPathsReturn
    \/ CondFinish
    \/ VolPathsAgain

Spec == Init /\ [][Next]_vars

\* ------------------------------------------------------------ properties
Returned == var_paths # None
Rows == 0 .. Len(tobs)
Cols == Paths(n_path)
Bracket(p) == FwdBracket(sigma_final[p], int_sigma[p], int_var[p], int_sigma_inv[p])

\* C1 as stated: every entry of the matrix vol_paths returns is strictly
\* positive, at every row and on every path.
C1_AllPositive ==
    Returned => \A r \in Rows, p \in Cols : Lt(0, var_paths[r][p])

\* C1 as amended: no entry of the returned matrix is negative (it is >= 0 or
\* NaN), and an entry is strictly positive exactly when its log-variance is
\* not NaN and is not below the underflow threshold of exp.
C1_NonNegative ==
    Returned =>
        \A r \in Rows, p \in Cols :
            /\ IsNaN(var_paths[r][p]) \/ Le(0, var_paths[r][p])
            /\ Lt(0, var_paths[r][p]) <=> (~IsNaN(w_t[r][p]) /\ w_t[r][p] >= MinLogPos)

C1_Witness ==
    /\ Returned
    /\ n_dt >= 2
    /\ vov > 0
    /\ \A r \in Rows, p \in Cols : Lt(0, var_paths[r][p])
    /\ \E p \in Cols : var_paths[n_dt][p] # var_paths[0][p]

\* C2 as stated: row 0 of the returned matrix equals sigma**2 on every path.
C2_Row0IsSigmaSquared ==
    Returned => \A p \in Cols : var_paths[0][p] = Mul(sigma, sigma)

\* C2 as amended: from its initialisation on, row 0 of w_t is 2*log(sigma) on
\* every path, no step of the loop writes it, and row 0 of the returned
\* matrix is exp(2*log(sigma)), whatever the increments and parameters are.
C2_Row0IsExpTwoLog ==
    w_t # None =>
        LET w0 == Mul(Two, Log(sigma))
            v0 == Exp(w0)
        IN  /\ \A p \in Cols : w_t[0][p] = w0
            /\ Returned => \A p \in Cols : var_paths[0][p] = v0

C2_Witness ==
    /\ Returned
    /\ n_dt >= 2
    /\ vov > 0
    /\ \A p \in Cols : var_paths[0][p] = Exp(Mul(Two, Log(sigma)))
    /\ \E p \in Cols : w_t[n_dt][p] # w_t[0][p]
    /\ \E p \in Cols : var_paths[0][p] # Mul(sigma, sigma)

\* C3 as stated: with rho = 0 the returned fwd_cond is exactly 1 on every
\* path, for every value of the other parameters.
C3_FwdCondIsOne ==
    (pc = "done" /\ rho = 0) => \A p \in Cols : fwd_cond[p] = One

\* C3 as amended: with rho = 0 the returned fwd_cond is exactly 1 on every
\* path whose bracket is finite and NaN on every other path; the bracket is
\* finite whenever vov # 0 and the path's variances and integrals are finite
\* and nonzero, and never finite when vov = 0.
C3_FwdCondIsOneOrNaN ==
    (pc = "done" /\ rho = 0) =>
        \A p \in Cols :
            /\ fwd_cond[p] = IF IsFinite(Bracket(p)) THEN One ELSE NaN
            /\ vov = 0 => ~IsFinite(Bracket(p))

C3_Witness ==
    /\ pc = "done"
    /\ rho = 0
    /\ vov > 0
    /\ mr > 0
    /\ n_dt >= 2
    /\ \A p \in Cols : fwd_cond[p] = One /\ Bracket(p) # 0

\* C4: with rho = 0, rhoc is exactly 1 and the returned sigma_cond is exactly
\* sqrt(int_var) on every path.
C4_SigmaCondIsSqrt ==
    (pc = "done" /\ rho = 0) =>
        /\ rhoc = One
        /\ \A p \in Cols : sigma_cond[p] = Sqrt(int_var[p])

C4_Witness ==
    /\ pc = "done"
    /\ rho = 0
    /\ n_dt >= 2
    /\ \A p \in Cols : Lt(0, sigma_cond[p]) /\ IsFinite(sigma_cond[p])
    /\ \E p \in Cols : sigma_cond[p] # int_var[p]

\* C5: the matrix vol_paths returns has exactly len(tobs) + 1 rows and n_path
\* columns, also for a single observation time.
C5_Shape ==
    Returned =>
        /\ DOMAIN var_paths = 0 .. Len(tobs)
        /\ \A r \in DOMAIN var_paths : DOMAIN var_paths[r] = Paths(n_path)

C5_Witness ==
    /\ Returned
    /\ Len(tobs) = 1
    /\ DOMAIN var_paths = {0, 1}
    /\ DOMAIN var_paths[1] = Paths(n_path)

\* C6 as stated: for |rho| <= 1 and a non-empty grid cond_spot_sigma returns
\* two arrays of length n_path, and sigma_cond >= 0 on every path.
C6_ReturnsNonNegative ==
    pc \in {"done", "raised"} =>
        /\ pc = "done"
        /\ DOMAIN fwd_cond = Paths(n_path)
        /\ DOMAIN sigma_cond = Paths(n_path)
        /\ \A p \in Cols : Le(0, sigma_cond[p])

\* C6 as amended: the call raises only when vov = 0 and the scalars are
\* built-in Python numbers; when it returns, both arrays have length n_path
\* and sigma_cond is never negative: it is >= 0, or NaN where int_var is NaN
\* or where rhoc = 0 meets an infinite int_var.
C6_ReturnsNeverNegative ==
    /\ pc = "raised" => (vov = 0 /\ pyScalars)
    /\ pc = "done" =>
        /\ DOMAIN fwd_cond = Paths(n_path)
        /\ DOMAIN sigma_cond = Paths(n_path)
        /\ \A p \in Cols :
              \/ Le(0, sigma_cond[p])
              \/ /\ IsNaN(sigma_cond[p])
                 /\ IsNaN(int_var[p]) \/ (rhoc = 0 /\ int_var[p] = PInf)

C6_Witness ==
    /\ pc = "done"
    /\ rho < 0
    /\ n_path = 2
    /\ n_dt >= 2
    /\ \A p \in Cols : Lt(0, sigma_cond[p])

C8_IncrementsInOrder ==
    /\ rn_norm # None => DOMAIN rn_norm = 0 .. (n_dt - 1)
    /\ pc = "loop" => Len(used) = i - 1
    /\ \A k \in 1 .. Len(used) : used[k] = [row |-> k, from |-> k - 1, rn |-> k - 1]
    /\ Returned => Len(used) = n_dt

C8_Witness ==
    /\ Returned
    /\ n_dt = MaxNdt
    /\ Len(used) = n_dt
    /\ used[n_dt].rn = n_dt - 1

\* C9: the n_dt steps of size dt that vol_paths takes span the expiry:
\* n_dt * dt = texp, the step texp / n_dt that rescales the integrals.
C9_StepIsGridSpacing ==
    pc \notin {"idle", "vol_paths"} =>
        /\ Mul(n_dt * One, dt) = texp
        /\ dt = Div(texp, n_dt * One)

\* C10 as stated: with vov = 0 the call raises nothing and returns a pair
\* whose fwd_cond is infinite or NaN.
C10_NoErrorOnZeroVov ==
    (vov = 0 /\ pc \in {"done", "raised"}) =>
        /\ pc = "done"
        /\ \A p \in Cols : fwd_cond[p] \in {PInf, NaN}

\* C10 as amended: with vov = 0 the call raises ZeroDivisionError (from
\* mr / vov) when the scalars are built-in Python numbers and returns nothing;
\* otherwise it returns, and fwd_cond is 0, +inf or NaN on every path.
C10_ZeroVovRaisesOrAnomaly ==
    (vov = 0 /\ pc \in {"done", "raised"}) =>
        IF pyScalars
        THEN pc = "raised" /\ fwd_cond = None /\ sigma_cond = None
        ELSE pc = "done" /\ \A p \in Cols : fwd_cond[p] \in {0, PInf, NaN}

C10_Witness ==
    /\ vov = 0
    /\ pyScalars
    /\ pc = "raised"
    /\ int_var # None

====
